---------------------------- MODULE Spec2Model ----------------------------
(***************************************************************************)
(* Model of the USD-BRL ETL scheduler (src/main.py) and of the stages it   *)
(* composes (src/pipeline/extract.py, transform.py, load.py).              *)
(*                                                                         *)
(* Time: an instant of the America/Sao_Paulo wall clock is the number of   *)
(* seconds since a Monday 00:00:00; a timedelta is a number of seconds.    *)
(* The zone has had no daylight-saving transition since 2019, and Python   *)
(* does arithmetic on datetimes of one tzinfo on the wall clock, so the    *)
(* wall clock is a line of seconds.                                        *)
(***************************************************************************)
EXTENDS Integers, Sequences, FiniteSets, TLC

VARIABLES
    pc,              \* position of the main thread
    stop_event,      \* threading.Event flag (main.py:25)
    now,             \* the instant the time window's functions are applied to
    within,          \* last result of is_within_allowed_time()
    time_remaining,  \* last result of time_until_next_start(), in seconds
    remaining,       \* seconds left of the wait the thread is suspended in
    data,            \* pipeline(): what extract_data returned
    transformed_data,\* pipeline(): what transform_data returned
    session,         \* save_data_postgres(): "none", "open" or "closed"
    txn,             \* records added to the open session, not yet committed
    store,           \* committed rows of dolar_data
    outcome,         \* how the last pipeline() call ended
    calls,           \* stages called in the current pipeline() call
    loadResult,      \* how the last save_data_postgres call ended
    storeBefore,     \* store when the last save_data_postgres call began
    storeAtRun,      \* store when the last pipeline() call began
    stopAt,          \* pc at which stop_event was first set
    runsAfterStop,   \* pipeline() calls begun after stop_event was set
    waitedAfterStop, \* seconds spent suspended after stop_event was set
    logged,          \* hours, minutes, seconds of the last status line
    sets,            \* calls of stop_event.set() so far
    inFlight,        \* pipeline() calls begun and not yet left
    cooled           \* seconds spent in the cooldown since the last run ended

vars == <<pc, stop_event, now, within, time_remaining, remaining, data,
          transformed_data, session, txn, store, outcome, calls, loadResult,
          storeBefore, storeAtRun, stopAt, runsAfterStop, waitedAfterStop,
          logged, sets, inFlight, cooled>>

-----------------------------------------------------------------------------
(* Bounds of the model *)

\* clock readings drawn per day on a regular grid (besides the boundary ones)
GridPerDay == 24
\* number of steps in which a 30 s suspension elapses
StepsPerCooldown == 1
\* rows the store can take before every further commit fails
MaxStore == 2
\* deliveries of SIGTERM the model follows
MaxSets == 2

-----------------------------------------------------------------------------
(* Program constants *)

StartHour == 8
EndHour == 19
FirstWeekendDay == 5
CooldownSeconds == 30
PollSeconds == 600

DaySeconds == 24 * 3600

-----------------------------------------------------------------------------
(* datetime arithmetic *)

\* datetime.weekday(): 0 = Monday ... 6 = Sunday
weekday(t) == (t \div DaySeconds) % 7

SecondOfDay(t) == t % DaySeconds

\* datetime.replace(hour=h, minute=0, second=0, microsecond=0)
replace_hour(t, h) == (t \div DaySeconds) * DaySeconds + h * 3600

GridSeconds == {k * (DaySeconds \div GridPerDay) : k \in 0..(GridPerDay - 1)}

BoundarySeconds ==
    {StartHour * 3600 + d : d \in {-1, 0, 1}} \cup
    {EndHour * 3600 + d : d \in {-1, 0, 1}} \cup {DaySeconds - 1}

\* the clock readings the model draws datetime.now() from
Instants ==
    {d * DaySeconds + s : d \in 0..6,
                          s \in GridSeconds \cup BoundarySeconds}

\* the readings the scheduler's clock gives: Thursday to Sunday, at the
\* window's start and right after its end
ClockReadings ==
    {t \in Instants : /\ weekday(t) >= 3
                      /\ SecondOfDay(t) \in {StartHour * 3600,
                                              EndHour * 3600 + 1}}

-----------------------------------------------------------------------------
(* main.py: the time window *)

is_within_allowed_time_strict_end(t) ==
    IF weekday(t) >= FirstWeekendDay
    THEN FALSE
    ELSE LET start == replace_hour(t, StartHour)
             end == replace_hour(t, EndHour)
         IN  start <= t /\ t < end

is_within_allowed_time(t) ==
    IF weekday(t) >= FirstWeekendDay
    THEN FALSE
    ELSE LET start == replace_hour(t, StartHour)
             end == replace_hour(t, EndHour)
         IN  start <= t /\ t <= end

RECURSIVE skip_weekend_from_friday(_)
skip_weekend_from_friday(next_start) ==
    IF weekday(next_start) >= FirstWeekendDay - 1
    THEN skip_weekend_from_friday(next_start + DaySeconds)
    ELSE next_start

RECURSIVE skip_weekend(_)
skip_weekend(next_start) ==
    IF weekday(next_start) >= FirstWeekendDay
    THEN skip_weekend(next_start + DaySeconds)
    ELSE next_start

time_until_next_start_no_advance(t) ==
    LET next_start == replace_hour(t, StartHour)
    IN  skip_weekend(IF t > next_start THEN next_start + DaySeconds
                     ELSE next_start) - t

time_until_next_start_single_skip(t) ==
    LET next_start == replace_hour(t, StartHour)
        first == IF t >= next_start THEN next_start + DaySeconds
                 ELSE next_start
    IN  (IF weekday(first) >= FirstWeekendDay THEN first + DaySeconds
         ELSE first) - t

time_until_next_start(t) ==
    LET next_start == replace_hour(t, StartHour)
    IN  skip_weekend(IF t >= next_start THEN next_start + DaySeconds
                     ELSE next_start) - t

\* timedelta.seconds: the seconds of a duration within its last day
timedelta_seconds(d) == d % DaySeconds

\* main.py:154-158: the HH:MM:SS of the status line
status_line(d) ==
    LET minutes0 == timedelta_seconds(d) \div 60
        seconds == timedelta_seconds(d) % 60
    IN  [hours |-> minutes0 \div 60, minutes |-> minutes0 % 60,
         seconds |-> seconds]

-----------------------------------------------------------------------------
(* The stages' data *)

NoDoc == [kind |-> "unset", code |-> "", codein |-> "", bid |-> 0]

\* what extract_data can return: None (a non-200 answer), or the answer's
\* JSON: an empty document, one without a usable "USDBRL" entry, a quote
RawDocs ==
    {[kind |-> "none", code |-> "", codein |-> "", bid |-> 0],
     [kind |-> "empty", code |-> "", codein |-> "", bid |-> 0],
     [kind |-> "malformed", code |-> "USD", codein |-> "BRL", bid |-> 0],
     [kind |-> "valid", code |-> "USD", codein |-> "BRL", bid |-> 512]}

NoQuote == [moeda_origem |-> "", moeda_destino |-> "", valor_de_compra |-> 0]

\* main.py:115, `not data`
not_data_none_only(d) == d.kind = "none"

not_data(d) == d.kind \in {"none", "empty"}

\* transform.py:40-44: the subscripts and int() raise on a malformed document
transform_raises(d) == d.kind # "valid"

transform_data(d) ==
    [moeda_origem |-> d.code, moeda_destino |-> d.codein,
     valor_de_compra |-> d.bid]

NoCalls == [extract |-> "no", transform |-> "no", load |-> "no"]

NoLine == [hours |-> 0, minutes |-> 0, seconds |-> 0]

-----------------------------------------------------------------------------
(* Positions of the main thread *)

RunPcs == {"extract", "check_data", "transform", "save_open", "save_add",
           "save_commit", "save_rollback", "save_close", "report"}

SuspendPcs == {"cooldown", "err_sleep", "poll_wait"}

LoopPcs == {"loop_head", "check_window", "until_next"} \cup RunPcs
               \cup SuspendPcs

LoopExited == pc \in {"stopped", "interrupted"}

\* stop_event.wait(timeout) (main.py:147, 161) returns as soon as the flag is
\* set; time.sleep(30) (main.py:150) resumes after a signal handler returns
Interruptible(p) == p \in {"cooldown", "poll_wait"}

\* the seconds that pass in one step of a suspension
Step == CooldownSeconds \div StepsPerCooldown

\* main.py:148-150: where an Exception raised inside pipeline() lands
catch_all_break == "stopped"

catch_all_no_cooldown == "loop_head"

catch_all == "err_sleep"

-----------------------------------------------------------------------------
(* Initial state: the process has installed the handler and enters the loop *)

Init ==
    /\ pc = "loop_head"
    /\ stop_event = FALSE
    /\ now = 0
    /\ within = FALSE
    /\ time_remaining = 0
    /\ remaining = 0
    /\ data = NoDoc
    /\ transformed_data = NoQuote
    /\ session = "none"
    /\ txn = <<>>
    /\ store = <<>>
    /\ outcome = "none"
    /\ calls = NoCalls
    /\ loadResult = "none"
    /\ storeBefore = <<>>
    /\ storeAtRun = <<>>
    /\ stopAt = "none"
    /\ runsAfterStop = 0
    /\ waitedAfterStop = 0
    /\ logged = NoLine
    /\ sets = 0
    /\ inFlight = 0
    /\ cooled = 0

timeVars == <<now, within, time_remaining, logged>>
runVars == <<data, transformed_data, outcome, calls, storeAtRun>>
dbVars == <<session, txn, store, loadResult, storeBefore>>
stopVars == <<stop_event, stopAt, sets>>
ghostVars == <<runsAfterStop, waitedAfterStop>>
callVars == <<inFlight, cooled>>

-----------------------------------------------------------------------------
(* main.py: the signal handler and the interactive interrupt *)

\* a handler that runs pipeline() once more itself
handle_sigterm_runs_pipeline ==
    /\ pc \in LoopPcs
    /\ sets < MaxSets
    /\ stop_event' = TRUE
    /\ sets' = sets + 1
    /\ stopAt' = IF stop_event THEN stopAt ELSE pc
    /\ inFlight' = inFlight + 1
    /\ UNCHANGED <<pc, remaining, timeVars, runVars, dbVars, ghostVars,
                   cooled>>

\* SIGTERM is delivered between two bytecodes of the main thread
handle_sigterm ==
    /\ pc \in LoopPcs
    /\ sets < MaxSets
    /\ stop_event' = TRUE
    /\ sets' = sets + 1
    /\ stopAt' = IF stop_event THEN stopAt ELSE pc
    /\ UNCHANGED <<pc, remaining, timeVars, runVars, dbVars, ghostVars,
                   callVars>>

\* an interrupt handler that clears the flag
keyboard_interrupt_clears ==
    /\ pc \in LoopPcs
    /\ pc' = "interrupted"
    /\ session' = IF session = "open" THEN "closed" ELSE session
    /\ txn' = <<>>
    /\ stop_event' = FALSE
    /\ sets' = sets + 1
    /\ stopAt' = IF stop_event THEN stopAt ELSE "main"
    /\ remaining' = 0
    /\ inFlight' = 0
    /\ UNCHANGED <<timeVars, runVars, store, loadResult, storeBefore,
                   ghostVars, cooled>>

\* a session closed by the Exception handler only, not by a finally
keyboard_interrupt_leaves_session ==
    /\ pc \in LoopPcs
    /\ pc' = "interrupted"
    /\ stop_event' = TRUE
    /\ sets' = sets + 1
    /\ stopAt' = IF stop_event THEN stopAt ELSE "main"
    /\ remaining' = 0
    /\ inFlight' = 0
    /\ UNCHANGED <<timeVars, runVars, dbVars, ghostVars, cooled>>

\* KeyboardInterrupt is no Exception: neither load.py:51 nor main.py:148
\* catches it; load.py:54-55 closes an open session on the way out and
\* main.py:173-175 sets the flag
keyboard_interrupt ==
    /\ pc \in LoopPcs
    /\ pc' = "interrupted"
    /\ session' = IF session = "open" THEN "closed" ELSE session
    /\ txn' = <<>>
    /\ stop_event' = TRUE
    /\ sets' = sets + 1
    /\ stopAt' = IF stop_event THEN stopAt ELSE "main"
    /\ remaining' = 0
    /\ inFlight' = 0
    /\ UNCHANGED <<timeVars, runVars, store, loadResult, storeBefore,
                   ghostVars, cooled>>

-----------------------------------------------------------------------------
(* main.py: loop_pipeline *)

\* a loop that never tests the flag
loop_head_ignores_flag ==
    /\ pc = "loop_head"
    /\ pc' = "check_window"
    /\ UNCHANGED <<remaining, timeVars, runVars, dbVars, stopVars, ghostVars,
                   callVars>>

\* main.py:141
loop_head ==
    /\ pc = "loop_head"
    /\ pc' = IF stop_event THEN "stopped" ELSE "check_window"
    /\ UNCHANGED <<remaining, timeVars, runVars, dbVars, stopVars, ghostVars,
                   callVars>>

\* main.py:142-145 and 152: the window check, then the call of pipeline()
\* or the else branch
check_window ==
    /\ pc = "check_window"
    /\ \E t \in ClockReadings : within' = is_within_allowed_time(t)
    /\ IF within'
       THEN /\ pc' = "extract"
            /\ data' = NoDoc
            /\ transformed_data' = NoQuote
            /\ outcome' = "none"
            /\ calls' = NoCalls
            /\ storeAtRun' = store
            /\ loadResult' = "none"
            /\ runsAfterStop' = IF stop_event THEN runsAfterStop + 1
                                ELSE runsAfterStop
            /\ inFlight' = inFlight + 1
       ELSE /\ pc' = "until_next"
            /\ UNCHANGED <<runVars, loadResult, runsAfterStop, inFlight>>
    /\ UNCHANGED <<now, time_remaining, logged, remaining, session, txn,
                   store, storeBefore, stopVars, waitedAfterStop, cooled>>

\* a poll that waits for the whole time_remaining
until_next_full_wait ==
    /\ pc = "until_next"
    /\ \E t \in ClockReadings :
        /\ ~is_within_allowed_time(t) \/ t = replace_hour(t, StartHour)
        /\ time_remaining' = time_until_next_start(t)
    /\ logged' = status_line(time_remaining')
    /\ pc' = "poll_wait"
    /\ remaining' = time_remaining'
    /\ UNCHANGED <<now, within, runVars, dbVars, stopVars, ghostVars,
                   callVars>>

\* main.py:153-161: the clock is read again, no earlier than the reading
\* that was outside the window: outside of it still, or at its very start
until_next ==
    /\ pc = "until_next"
    /\ \E t \in ClockReadings :
        /\ ~is_within_allowed_time(t) \/ t = replace_hour(t, StartHour)
        /\ time_remaining' = time_until_next_start(t)
    /\ logged' = status_line(time_remaining')
    /\ pc' = "poll_wait"
    /\ remaining' = PollSeconds
    /\ UNCHANGED <<now, within, runVars, dbVars, stopVars, ghostVars,
                   callVars>>

\* time passes in a suspension
elapse ==
    /\ pc \in SuspendPcs
    /\ remaining > 0
    /\ Interruptible(pc) => ~stop_event
    /\ remaining' = IF remaining > Step THEN remaining - Step ELSE 0
    /\ waitedAfterStop' = IF stop_event THEN waitedAfterStop + Step
                          ELSE waitedAfterStop
    /\ cooled' = IF pc = "poll_wait" THEN cooled
                 ELSE cooled + (remaining - remaining')
    /\ UNCHANGED <<pc, timeVars, runVars, dbVars, stopVars, runsAfterStop,
                   inFlight>>

\* a suspension after which the loop goes on without testing the flag
wake_up_skips_head ==
    /\ pc \in SuspendPcs
    /\ remaining = 0 \/ (Interruptible(pc) /\ stop_event)
    /\ pc' = "check_window"
    /\ remaining' = 0
    /\ UNCHANGED <<timeVars, runVars, dbVars, stopVars, ghostVars, callVars>>

\* the suspension ends (main.py:147, 150, 161), back to the loop's head
wake_up ==
    /\ pc \in SuspendPcs
    /\ remaining = 0 \/ (Interruptible(pc) /\ stop_event)
    /\ pc' = "loop_head"
    /\ remaining' = 0
    /\ UNCHANGED <<timeVars, runVars, dbVars, stopVars, ghostVars, callVars>>

-----------------------------------------------------------------------------
(* main.py: pipeline, with extract.py and transform.py *)

\* control leaves pipeline() with an Exception (main.py:148-150)
Raise ==
    /\ outcome' = "Raised"
    /\ pc' = catch_all
    /\ remaining' = CooldownSeconds
    /\ inFlight' = inFlight - 1
    /\ cooled' = 0

\* control leaves pipeline() by a return (main.py:146-147)
Return(result) ==
    /\ outcome' = result
    /\ pc' = "cooldown"
    /\ remaining' = CooldownSeconds
    /\ inFlight' = inFlight - 1
    /\ cooled' = 0

\* extract.py:38-43
extract_returns ==
    /\ pc = "extract"
    /\ \E d \in RawDocs : data' = d
    /\ calls' = [calls EXCEPT !.extract = "returned"]
    /\ pc' = "check_data"
    /\ UNCHANGED <<remaining, timeVars, transformed_data, outcome,
                   storeAtRun, dbVars, stopVars, ghostVars,
                   callVars>>

\* extract.py:38, 40: requests.get or response.json() raises
extract_raises ==
    /\ pc = "extract"
    /\ calls' = [calls EXCEPT !.extract = "raised"]
    /\ Raise
    /\ UNCHANGED <<timeVars, data, transformed_data, storeAtRun, dbVars,
                   stopVars, ghostVars>>

\* main.py:115-117
check_data ==
    /\ pc = "check_data"
    /\ IF not_data(data)
       THEN Return("NoData")
       ELSE /\ pc' = "transform"
            /\ UNCHANGED <<outcome, remaining, callVars>>
    /\ UNCHANGED <<timeVars, data, transformed_data, calls, storeAtRun,
                   dbVars, stopVars, ghostVars>>

\* a transform failure logged inside pipeline(), which then goes on
transform_swallowed ==
    /\ pc = "transform"
    /\ IF transform_raises(data)
       THEN /\ calls' = [calls EXCEPT !.transform = "raised"]
            /\ transformed_data' = NoQuote
       ELSE /\ calls' = [calls EXCEPT !.transform = "returned"]
            /\ transformed_data' = transform_data(data)
    /\ pc' = "save_open"
    /\ UNCHANGED <<outcome, remaining, timeVars, data, storeAtRun, dbVars,
                   stopVars, ghostVars,
                   callVars>>

\* main.py:119-120 and transform.py:40-56
transform ==
    /\ pc = "transform"
    /\ IF transform_raises(data)
       THEN /\ calls' = [calls EXCEPT !.transform = "raised"]
            /\ Raise
            /\ UNCHANGED transformed_data
       ELSE /\ calls' = [calls EXCEPT !.transform = "returned"]
            /\ transformed_data' = transform_data(data)
            /\ pc' = "save_open"
            /\ UNCHANGED <<outcome, remaining, callVars>>
    /\ UNCHANGED <<timeVars, data, storeAtRun, dbVars, stopVars, ghostVars>>

\* main.py:125
report ==
    /\ pc = "report"
    /\ Return("Success")
    /\ UNCHANGED <<timeVars, data, transformed_data, calls, storeAtRun,
                   dbVars, stopVars, ghostVars>>

-----------------------------------------------------------------------------
(* load.py: save_data_postgres *)

\* load.py:43
save_open ==
    /\ pc = "save_open"
    /\ session' = "open"
    /\ txn' = <<>>
    /\ storeBefore' = store
    /\ calls' = [calls EXCEPT !.load = "running"]
    /\ pc' = "save_add"
    /\ UNCHANGED <<remaining, timeVars, data, transformed_data, outcome,
                   storeAtRun, store, loadResult, stopVars, ghostVars,
                   callVars>>

\* load.py:44-45
save_add ==
    /\ pc = "save_add"
    /\ txn' = Append(txn, transformed_data)
    /\ pc' = "save_commit"
    /\ UNCHANGED <<remaining, timeVars, runVars, session, store, loadResult,
                   storeBefore, stopVars, ghostVars,
                   callVars>>

\* load.py:44-45 raises, control goes to load.py:51
save_add_raises ==
    /\ pc = "save_add"
    /\ loadResult' = "failed"
    /\ pc' = "save_rollback"
    /\ UNCHANGED <<remaining, timeVars, runVars, session, txn, store,
                   storeBefore, stopVars, ghostVars,
                   callVars>>

\* load.py:46-50: the transaction commits
save_commit ==
    /\ pc = "save_commit"
    /\ Len(store) < MaxStore
    /\ store' = store \o txn
    /\ txn' = <<>>
    /\ loadResult' = "committed"
    /\ pc' = "save_close"
    /\ UNCHANGED <<remaining, timeVars, runVars, session, storeBefore,
                   stopVars, ghostVars,
                   callVars>>

\* load.py:46 raises, control goes to load.py:51; the database has committed
\* nothing
save_commit_raises ==
    /\ pc = "save_commit"
    /\ loadResult' = "failed"
    /\ pc' = "save_rollback"
    /\ UNCHANGED <<remaining, timeVars, runVars, session, txn, store,
                   storeBefore, stopVars, ghostVars,
                   callVars>>

\* an error handler that commits again where load.py:53 rolls back
save_rollback_commits ==
    /\ pc = "save_rollback"
    /\ store' = store \o txn
    /\ txn' = <<>>
    /\ pc' = "save_close"
    /\ UNCHANGED <<remaining, timeVars, runVars, session, loadResult,
                   storeBefore, stopVars, ghostVars,
                   callVars>>

\* load.py:51-53
save_rollback ==
    /\ pc = "save_rollback"
    /\ txn' = <<>>
    /\ pc' = "save_close"
    /\ UNCHANGED <<remaining, timeVars, runVars, session, store, loadResult,
                   storeBefore, stopVars, ghostVars,
                   callVars>>

\* load.py:53 raises: the exception leaves the handler
save_rollback_raises ==
    /\ pc = "save_rollback"
    /\ loadResult' = "raised"
    /\ pc' = "save_close"
    /\ UNCHANGED <<remaining, timeVars, runVars, session, txn, store,
                   storeBefore, stopVars, ghostVars,
                   callVars>>

\* a close that is skipped when the handler's exception propagates
save_close_only_on_success ==
    /\ pc = "save_close"
    /\ session' = IF loadResult = "raised" THEN session ELSE "closed"
    /\ txn' = <<>>
    /\ IF loadResult = "raised"
       THEN /\ calls' = [calls EXCEPT !.load = "raised"]
            /\ Raise
       ELSE /\ calls' = [calls EXCEPT !.load = "returned"]
            /\ pc' = "report"
            /\ UNCHANGED <<outcome, remaining, callVars>>
    /\ UNCHANGED <<timeVars, data, transformed_data, storeAtRun, store,
                   loadResult, storeBefore, stopVars, ghostVars>>

\* load.py:54-55, then back in pipeline() at main.py:125, or out of it with
\* the handler's exception
save_close ==
    /\ pc = "save_close"
    /\ session' = "closed"
    /\ txn' = <<>>
    /\ IF loadResult = "raised"
       THEN /\ calls' = [calls EXCEPT !.load = "raised"]
            /\ Raise
       ELSE /\ calls' = [calls EXCEPT !.load = "returned"]
            /\ pc' = "report"
            /\ UNCHANGED <<outcome, remaining, callVars>>
    /\ UNCHANGED <<timeVars, data, transformed_data, storeAtRun, store,
                   loadResult, storeBefore, stopVars, ghostVars>>

-----------------------------------------------------------------------------
(* The scheduler's specification *)

MainThread ==
    \/ loop_head
    \/ check_window
    \/ until_next
    \/ elapse
    \/ wake_up
    \/ extract_returns
    \/ extract_raises
    \/ check_data
    \/ transform
    \/ report
    \/ save_open
    \/ save_add
    \/ save_add_raises
    \/ save_commit
    \/ save_commit_raises
    \/ save_rollback
    \/ save_rollback_raises
    \/ save_close

Next ==
    \/ MainThread
    \/ handle_sigterm
    \/ keyboard_interrupt

Spec == Init /\ [][Next]_vars

\* the interpreter keeps running the main thread, and time passes
FairSpec == Spec /\ WF_vars(MainThread)

-----------------------------------------------------------------------------
(* The time window's functions on their own, at every clock reading *)

InitTime ==
    /\ pc = "t_start"
    /\ now \in Instants
    /\ stop_event = FALSE
    /\ within = FALSE
    /\ time_remaining = 0
    /\ remaining = 0
    /\ data = NoDoc
    /\ transformed_data = NoQuote
    /\ session = "none"
    /\ txn = <<>>
    /\ store = <<>>
    /\ outcome = "none"
    /\ calls = NoCalls
    /\ loadResult = "none"
    /\ storeBefore = <<>>
    /\ storeAtRun = <<>>
    /\ stopAt = "none"
    /\ runsAfterStop = 0
    /\ waitedAfterStop = 0
    /\ logged = NoLine
    /\ sets = 0
    /\ inFlight = 0
    /\ cooled = 0

\* main.py:54-60 at the instant now
time_check ==
    /\ pc = "t_start"
    /\ within' = is_within_allowed_time(now)
    /\ pc' = "t_checked"
    /\ UNCHANGED <<now, time_remaining, logged, remaining, runVars, dbVars,
                   stopVars, ghostVars, callVars>>

\* main.py:74-85 at the instant now
time_until ==
    /\ pc = "t_checked"
    /\ time_remaining' = time_until_next_start(now)
    /\ pc' = "t_done"
    /\ UNCHANGED <<now, within, logged, remaining, runVars, dbVars,
                   stopVars, ghostVars, callVars>>

NextTime == time_check \/ time_until

SpecTime == InitTime /\ [][NextTime]_vars

-----------------------------------------------------------------------------
(* Claims *)

\* C1: every suspension of loop_pipeline is interruptible: when the stop flag
\* is set while the loop is suspended in the poll wait, in the cooldown after
\* a normal return or in the cooldown after an exception, no more time is
\* spent in that suspension.
C1_EverySuspensionInterruptible ==
    stopAt \in SuspendPcs => waitedAfterStop = 0

\* C2: when the stop flag is set while the loop is suspended in any wait
\* (poll wait, cooldown, cooldown after an exception), pipeline() is not
\* called again and the loop ends.
C2_CancelInWaitStopsWithoutRun ==
    /\ [](stopAt \in SuspendPcs => runsAfterStop = 0)
    /\ (stopAt \in SuspendPcs) ~> LoopExited

C2_Witness ==
    stopAt = "err_sleep" /\ pc = "stopped" /\ runsAfterStop = 0

\* C3: once the stop flag is set the loop eventually ends, from every state,
\* and it ends without having waited out an interval after the flag was set.
C3_PromptStop ==
    /\ stop_event ~> LoopExited
    /\ [](LoopExited => waitedAfterStop = 0)

C5_NoDataShortCircuits ==
    (calls.extract = "returned" /\ data.kind \in {"none", "empty"})
        => /\ calls.transform = "no"
           /\ calls.load = "no"
           /\ pc \notin {"check_data", "interrupted"} => outcome = "NoData"

C5_Witness ==
    data.kind = "empty" /\ outcome = "NoData" /\ pc = "cooldown"

\* C6: when transform_data raises, save_data_postgres is not called in that
\* run and no record is added to the store; the exception lands in the
\* loop's cooldown, so the loop goes on.
C6_TransformFailureSkipsLoad ==
    /\ [](calls.transform = "raised"
             => calls.load = "no" /\ store = storeAtRun)
    /\ [][(calls.transform # "raised" /\ calls'.transform = "raised")
             => pc' = "err_sleep"]_vars

C6_Witness ==
    calls.transform = "raised" /\ pc = "check_window" /\ ~stop_event

\* C7: a run reports success only if save_data_postgres committed the
\* record; a run whose Load failed is not reported as a success.
C7_SuccessOnlyIfCommitted ==
    outcome = "Success" => loadResult = "committed"

\* C8: save_data_postgres is all-or-nothing: after a call that commits, the
\* store holds exactly the one record more; after a call that fails, the
\* store is what it was before the call.
C8_LoadAllOrNothing ==
    /\ loadResult = "committed" => store = Append(storeBefore, transformed_data)
    /\ loadResult \in {"failed", "raised"} => store = storeBefore

C8_Witness ==
    loadResult = "failed" /\ calls.load = "returned" /\ Len(store) = 1

\* C9: is_within_allowed_time is true at t exactly when t is on Monday to
\* Friday and 08:00:00 <= t <= 19:00:00, both ends included; it is false on
\* every Saturday and Sunday instant.
C9_WindowIsWeekdayClosedInterval ==
    pc \in {"t_checked", "t_done"}
        => (within <=> /\ (now \div 86400) % 7 \in 0..4
                       /\ 8 * 3600 <= now % 86400
                       /\ now % 86400 <= 19 * 3600)

C9_Witness ==
    pc = "t_checked" /\ within /\ now % 86400 = 19 * 3600

\* C10: time_until_next_start returns a strictly positive duration d, also at
\* exactly 08:00:00, and is_within_allowed_time is true at t + d.
C10_NextStartPositiveAndInWindow ==
    pc = "t_done"
        => /\ time_remaining > 0
           /\ is_within_allowed_time(now + time_remaining)

C10_Witness ==
    pc = "t_done" /\ now = 4 * 86400 + 8 * 3600 /\ time_remaining = 3 * 86400

\* C11: t + time_until_next_start(t) is the earliest Monday-to-Friday
\* 08:00 strictly later than t: the same day's before 08:00 on a weekday, the
\* next day's at or after 08:00 on Monday to Thursday, the following
\* Monday's at or after 08:00 on Friday, on Saturday and on Sunday.
C11_EarliestWeekdayStart ==
    pc = "t_done" =>
        LET target == now + time_remaining
            day0 == (now \div 86400) * 86400
            wd == (now \div 86400) % 7
            sod == now % 86400
        IN  /\ target > now
            /\ target % 86400 = 8 * 3600
            /\ (target \div 86400) % 7 \in 0..4
            /\ \A k \in 0..3 :
                 LET c == day0 + k * 86400 + 8 * 3600
                 IN  (c > now /\ (c \div 86400) % 7 \in 0..4) => target <= c
            /\ (wd <= 4 /\ sod < 8 * 3600) => target = day0 + 8 * 3600
            /\ (wd <= 3 /\ sod >= 8 * 3600)
                   => target = day0 + 86400 + 8 * 3600
            /\ (wd = 4 /\ sod >= 8 * 3600)
                   => target = day0 + 3 * 86400 + 8 * 3600
            /\ wd = 5 => target = day0 + 2 * 86400 + 8 * 3600
            /\ wd = 6 => target = day0 + 86400 + 8 * 3600

C11_Witness ==
    /\ pc = "t_done"
    /\ now = 5 * 86400 + 10 * 3600
    /\ now + time_remaining = 7 * 86400 + 8 * 3600

\* C12: the stop flag starts false, no step resets it once it is set, and
\* setting it again changes nothing but the count of the calls.
C12_StopFlagMonotonic ==
    /\ ~stop_event
    /\ [][stop_event => stop_event']_vars
    /\ [][(stop_event /\ sets' # sets /\ pc' # "interrupted")
             => UNCHANGED <<pc, stop_event, stopAt, remaining, timeVars,
                            runVars, dbVars, ghostVars, callVars>>]_vars

C12_Witness ==
    sets = 3 /\ stop_event /\ pc = "interrupted" /\ stopAt = "cooldown"

\* C13: at most one pipeline() call is in flight in every state, also with
\* the signal handler firing, and none is in flight during a wait; a
\* cooldown begins only after the call has returned or raised.
C13_OneRunInFlight ==
    /\ inFlight \in {0, 1}
    /\ pc \in RunPcs => inFlight = 1
    /\ pc \in SuspendPcs \cup {"loop_head", "check_window", "until_next"}
           => inFlight = 0
    /\ pc \in {"cooldown", "err_sleep"}
           => outcome \in {"NoData", "Success", "Raised"}

C13_Witness ==
    inFlight = 1 /\ stop_event /\ pc = "save_commit" /\ stopAt = "transform"

C15_FreshWindowCheck ==
    /\ [][(pc' = "extract" /\ pc # "extract")
             => (pc = "check_window" /\ within')]_vars
    /\ [][(pc = "check_window" /\ pc' \notin {"check_window", "interrupted"})
             => pc' = (IF within' THEN "extract" ELSE "until_next")]_vars
    /\ [][(pc = "until_next" /\ pc' \notin {"until_next", "interrupted"})
             => (pc' = "poll_wait" /\ remaining' = 600)]_vars
    /\ [](pc = "poll_wait" => remaining <= 600)
    /\ [][(pc \in SuspendPcs /\ pc' \notin SuspendPcs)
             => pc' \in {"loop_head", "interrupted"}]_vars

C15_Witness ==
    pc = "poll_wait" /\ remaining = 0 /\ time_remaining > 600 /\ ~stop_event

\* C16: a pipeline() call that follows another begins only after a whole
\* cooldown of 30 s, whatever the outcome of the first; both cooldowns last
\* the same 30 s.
C16_CooldownBetweenRuns ==
    /\ [][(pc = "check_window" /\ pc' = "extract" /\ outcome # "none")
             => cooled = 30]_vars
    /\ [](pc \in {"cooldown", "err_sleep"} => remaining + cooled = 30)

C16_Witness ==
    pc = "extract" /\ Len(store) = 1 /\ cooled = 30 /\ ~stop_event

\* C17 as stated: the weekend loop makes at most 2 one-day advances after the
\* first candidate, and the duration is less than 3 days.
C17_LessThanThreeDays ==
    pc = "t_done" =>
        LET start0 == (now \div 86400) * 86400 + 8 * 3600
            first == IF now >= start0 THEN start0 + 86400 ELSE start0
        IN  /\ now + time_remaining >= first
            /\ (now + time_remaining - first) \div 86400 <= 2
            /\ (now + time_remaining - first) % 86400 = 0
            /\ time_remaining < 3 * 86400

\* C17 amended: at most 2 one-day advances after the first candidate, and
\* the duration is at most 3 days (3 days exactly at Friday 08:00:00).
C17_AtMostThreeDays ==
    pc = "t_done" =>
        LET start0 == (now \div 86400) * 86400 + 8 * 3600
            first == IF now >= start0 THEN start0 + 86400 ELSE start0
        IN  /\ now + time_remaining >= first
            /\ (now + time_remaining - first) \div 86400 <= 2
            /\ (now + time_remaining - first) % 86400 = 0
            /\ time_remaining <= 3 * 86400
            /\ time_remaining = 3 * 86400 => now = 4 * 86400 + 8 * 3600

C17_Witness ==
    /\ pc = "t_done"
    /\ (now \div 86400) % 7 = 4
    /\ now % 86400 = 8 * 3600
    /\ time_remaining = 72 * 3600

\* C18: a session is open only inside the save_data_postgres call that
\* opened it; once the call has returned or raised, the session is closed.
C18_SessionClosedAfterLoad ==
    /\ session = "open"
           => /\ pc \in {"save_add", "save_commit", "save_rollback",
                         "save_close"}
              /\ calls.load = "running"
    /\ calls.load \in {"returned", "raised"} => session = "closed"

C18_Witness ==
    calls.load = "raised" /\ session = "closed" /\ pc = "err_sleep"

\* C19: at most one pipeline() call begins after the stop flag is set, and
\* only when the flag was set between the loop's test and the window check.
C19_AtMostOneRunAfterStop ==
    /\ runsAfterStop <= 1
    /\ runsAfterStop = 1 => stopAt = "check_window"

C19_Witness ==
    runsAfterStop = 1 /\ pc = "stopped"

\* C20: the HH:MM:SS of the status line is the whole duration that
\* time_until_next_start returned, also when it is a day or more.
C20_StatusLineIsWholeDuration ==
    pc = "poll_wait"
        => logged.hours * 3600 + logged.minutes * 60 + logged.seconds
               = time_remaining

=============================================================================
